---- MODULE Spec2Model ----
(***************************************************************************)
(* The PingSource reconciler of pkg/reconciler/pingsource/pingsource.go.   *)
(*                                                                         *)
(* One process per PingSource runs ReconcileKind; every lister read and    *)
(* every client call is one step, so that reconciles of different sources  *)
(* interleave at the calls they make.  The store is the API server (the    *)
(* client's target), the lister is the informer cache, which lags the      *)
(* store until Sync copies a kind over.                                    *)
(***************************************************************************)
EXTENDS Integers, Sequences, FiniteSets, TLC

VARIABLES
    source,         \* the PingSource objects: annotations and spec
    status,         \* source.Status of every PingSource
    store,          \* the objects held by the API server
    lister,         \* the objects held by the informer caches
    tracker,        \* references registered with r.tracker
    loggingConfig,  \* r.loggingConfig (a pointer: <<>> is nil)
    metricsConfig,  \* r.metricsConfig (a pointer: <<>> is nil)
    pc,             \* where each source's ReconcileKind stands
    loc,            \* the locals of each running ReconcileKind
    result,         \* what the last ReconcileKind of each source returned
    calls,          \* lister and client calls issued by the current run
    events,         \* events recorded by the current run
    prev,           \* summary of the previous finished run of each source
    sinceDone,      \* nobody else wrote to the store since the source's last run
    runs,           \* number of reconciles started, over all sources
    faults,         \* number of injected transient failures
    panicked,       \* the controller process died of a nil dereference
    reloads         \* number of configuration snapshots delivered

vars == <<source, status, store, lister, tracker, loggingConfig, metricsConfig,
          pc, loc, result, calls, events, prev, sinceDone, runs, faults,
          panicked, reloads>>

\* what only the configuration callbacks change
process == <<loggingConfig, metricsConfig, panicked, reloads>>

(***************************************************************************)
(* Bounds of the model.                                                    *)
(***************************************************************************)
MaxRuns == 2
MaxFaults == 1
MaxReloads == 1

(***************************************************************************)
(* The sources and the fixed strings of the program.                       *)
(***************************************************************************)
Sources == {"p1", "p2"}

SourceNamespace == "ns1"

SourceUID(s) == IF s = "p1" THEN "uid1" ELSE "uid2"

\* a uid that belongs to no source of the model: the owner of foreign objects
OtherUID == "uid9"

ScopeAnnotationKey == "eventing.knative.dev/scope"
ScopeCluster == "cluster"
ScopeResource == "resource"

mtadapterName == "pingsource-mt-adapter"
stadapterClusterRoleName == "knative-eventing-pingsource-adapter"
SystemNamespace == "knative-eventing"

receiveAdapterImage == "adapter:v1"
receiveMTAdapterImage == "mtadapter:v1"
leConfig == "le"

PingSourceEventType == "dev.knative.sources.ping"

PingSourceSource(namespace, name) ==
    "/apis/v1/namespaces/" \o namespace \o "/pingsources/" \o name

(***************************************************************************)
(* Names of the per-source objects.  The current scheme and the deprecated *)
(* one give the same name unless the source's name is too long for a       *)
(* label; then one hashes and the other truncates.                         *)
(***************************************************************************)
LongNamed == {"p1"}

CreateReceiveAdapterName(name, uid) ==
    IF name \in LongNamed
    THEN "pingsource-" \o name \o "-hash-" \o uid
    ELSE "pingsource-" \o name \o "-" \o uid

GenerateFixedName(name, uid, prefix) ==
    IF name \in LongNamed
    THEN prefix \o "-trunc-" \o uid
    ELSE prefix \o "-" \o uid

\* a reconciler that looks for the deprecated workload under the wrong name
DeprecatedName_NoUID(s) == "pingsource-" \o s

DeprecatedName(s) == GenerateFixedName(s, SourceUID(s), "pingsource-" \o s)

(***************************************************************************)
(* Destinations.  A pointer is a sequence of length 0 (nil) or 1.          *)
(***************************************************************************)
Sinks ==
    { [ref |-> <<[namespace |-> "", name |-> "svc1"]>>, uri |-> ""],
      [ref |-> <<[namespace |-> "ns2", name |-> "svc1"]>>, uri |-> ""],
      [ref |-> <<>>, uri |-> "http://example.com/"] }

\* the address the resolver computes for a destination it can resolve
ResolvedAddress(dest) ==
    IF dest.ref # <<>>
    THEN "http://" \o dest.ref[1].name \o "." \o dest.ref[1].namespace \o "/"
    ELSE dest.uri

(***************************************************************************)
(* Pod specs, and the objects of the store and of the lister.              *)
(***************************************************************************)
PodFields ==
    {"image", "serviceAccountName", "sink", "data", "logging", "metrics",
     "leConfig", "dnsPolicy"}

EmptyPodSpec == [f \in PodFields |-> ""]

\* what the API server fills in where the object leaves it empty
Defaulted(spec) ==
    [spec EXCEPT !.dnsPolicy = IF @ = "" THEN "ClusterFirst" ELSE @]

Obj(kind, namespace, name, owner, spec) ==
    [kind |-> kind, namespace |-> namespace, name |-> name, owner |-> owner,
     spec |-> spec, rv |-> 0, available |-> FALSE]

Key(o) == <<o.kind, o.namespace, o.name>>

Find(objects, kind, namespace, name) ==
    {o \in objects : Key(o) = <<kind, namespace, name>>}

\* a reconciler that takes any object at the expected name for its own
IsControlledBy_Any(o, s) == TRUE

\* metav1.IsControlledBy
IsControlledBy(o, s) == o.owner = SourceUID(s)

(***************************************************************************)
(* The API server behind the client: it rejects a create of a key it       *)
(* holds, an update of a key it does not hold or of an outdated version,   *)
(* and a delete of a key it does not hold.                                 *)
(***************************************************************************)
CreateError(objects, o) ==
    IF Find(objects, o.kind, o.namespace, o.name) # {} THEN "AlreadyExists" ELSE ""

Created(o) == [o EXCEPT !.spec = Defaulted(@), !.rv = 1, !.available = FALSE]

UpdateError(objects, o) ==
    LET held == Find(objects, o.kind, o.namespace, o.name) IN
    IF held = {} THEN "NotFound"
    ELSE IF \E h \in held : h.rv # o.rv THEN "Conflict"
    ELSE ""

Updated(o) == [o EXCEPT !.spec = Defaulted(@), !.rv = @ + 1]

DeleteError(objects, kind, namespace, name) ==
    IF Find(objects, kind, namespace, name) = {} THEN "NotFound" ELSE ""

\* apierrors.IsNotFound
IsNotFound(err) == err = "NotFound"

(***************************************************************************)
(* Desired state.                                                          *)
(***************************************************************************)
\* pkgLogging.LoggingConfigToJson and metrics.MetricsOptionsToJson: nil -> ""
ConfigToJson(cfg) == IF cfg = <<>> THEN "" ELSE "{" \o cfg[1] \o "}"

MakeServiceAccount(s, name) ==
    Obj("sa", SourceNamespace, name, SourceUID(s), EmptyPodSpec)

MakeRoleBinding(s, name, role) ==
    Obj("rb", SourceNamespace, name, SourceUID(s),
        [EmptyPodSpec EXCEPT !.serviceAccountName = name, !.leConfig = role])

MakeReceiveAdapter(s, data, sinkURI, logging, metrics) ==
    Obj("deploy", SourceNamespace, CreateReceiveAdapterName(s, SourceUID(s)),
        SourceUID(s),
        [EmptyPodSpec EXCEPT
            !.image = receiveAdapterImage,
            !.serviceAccountName = CreateReceiveAdapterName(s, SourceUID(s)),
            !.sink = sinkURI,
            !.data = data,
            !.logging = logging,
            !.metrics = metrics])

MakeMTReceiveAdapter(image, logging, metrics, le) ==
    Obj("deploy", SystemNamespace, mtadapterName, "",
        [EmptyPodSpec EXCEPT
            !.image = image,
            !.serviceAccountName = mtadapterName,
            !.logging = logging,
            !.metrics = metrics,
            !.leConfig = le])

(***************************************************************************)
(* Drift: equality.Semantic.DeepDerivative(a1, a2) ignores the fields of   *)
(* a1 that are unset (an empty string) and compares the others.            *)
(***************************************************************************)
DeepDerivative(a1, a2) == \A f \in PodFields : a1[f] = "" \/ a1[f] = a2[f]

\* a drift detector that asks for field-by-field equality
podSpecChanged_Equal(oldPodSpec, newPodSpec) == oldPodSpec # newPodSpec

\* a drift detector that never reports drift
podSpecChanged_Never(oldPodSpec, newPodSpec) == FALSE

podSpecChanged(oldPodSpec, newPodSpec) == ~DeepDerivative(newPodSpec, oldPodSpec)

(***************************************************************************)
(* ReconcileKind, lines 119-128: the destination handed to the resolver.   *)
(***************************************************************************)
DefaultedDest(sink, namespace) ==
    IF sink.ref # <<>> /\ sink.ref[1].namespace = ""
    THEN [sink EXCEPT !.ref = <<[sink.ref[1] EXCEPT !.namespace = namespace]>>]
    ELSE sink

(***************************************************************************)
(* ReconcileKind, lines 141-146: the path the scope annotation selects.    *)
(***************************************************************************)
Route(annotations) ==
    LET scope == IF ScopeAnnotationKey \in DOMAIN annotations
                 THEN annotations[ScopeAnnotationKey]
                 ELSE ScopeCluster
    IN IF scope = ScopeCluster THEN "cluster" ELSE "resource"

(***************************************************************************)
(* What ReconcileKind returns.  fmt.Errorf gives a plain error whatever it *)
(* wraps; the resolver failure is returned as a reconciler event; the      *)
(* cluster path hands the client's or the tracker's error back as it is.   *)
(***************************************************************************)
NilResult == [type |-> "nil", step |-> "", cause |-> ""]
Errorf(step, cause) == [type |-> "errorString", step |-> step, cause |-> cause]
RawError(step, cause) == [type |-> "rawError", step |-> step, cause |-> cause]
WarningEvent(reason) == [type |-> "reconcilerEvent", step |-> "resolve", cause |-> reason]

\* the outcome the invoker sees: only a permanent error stops the re-queue
OutcomeKind(r) ==
    IF r.type = "nil" THEN "Success"
    ELSE IF r.type = "permanentError" THEN "TerminalFailure"
    ELSE "RetryableFailure"

(***************************************************************************)
(* The sources the model reconciles and the objects the store holds when   *)
(* the controller starts.                                                  *)
(***************************************************************************)
NoAnnotations == [k \in {} |-> ""]
Scoped(v) == [k \in {ScopeAnnotationKey} |-> v]

SinkURI == [ref |-> <<>>, uri |-> "http://example.com/"]
SinkLocalRef == [ref |-> <<[namespace |-> "", name |-> "svc1"]>>, uri |-> ""]

\* A source as the model starts with it: its scope annotation, its sink, what
\* an earlier controller or another owner left in the store for it, and the
\* data of its spec now (the objects left were built for the data "d1").
Config(ann, sink, prior, data) ==
    [annotations |-> ann, sink |-> sink, prior |-> prior, data |-> data]

ConfigsOf(s) ==
    IF s = "p1"
    THEN {Config(ann, SinkLocalRef, "none", "d1") :
              ann \in {NoAnnotations, Scoped(ScopeCluster), Scoped(ScopeResource),
                       Scoped("bogus")}}
         \cup {Config(Scoped(ScopeResource), sink, "none", "d1") : sink \in Sinks}
         \cup {Config(Scoped(ScopeResource), SinkLocalRef, prior, "d1") :
                  prior \in {"own", "deprecated", "foreignSA", "foreignRB",
                             "foreignRA"}}
         \cup {Config(Scoped(ScopeResource), SinkLocalRef, "own", data) :
                  data \in {"", "d2"}}
    ELSE {Config(NoAnnotations, SinkURI, "none", "d1")}

SharedPriors == {"none", "current", "old"}

Live(o) == [Created(o) EXCEPT !.available = TRUE]

ExpectedName(s) == CreateReceiveAdapterName(s, SourceUID(s))

PriorObjects(s, prior, sink) ==
    LET sa == MakeServiceAccount(s, ExpectedName(s))
        rb == MakeRoleBinding(s, ExpectedName(s), stadapterClusterRoleName)
        ra == MakeReceiveAdapter(s, "d1",
                  ResolvedAddress(DefaultedDest(sink, SourceNamespace)), "", "")
    IN CASE prior = "none" -> {}
         [] prior = "own" -> {Live(sa), Live(rb), Live(ra)}
         [] prior = "deprecated" ->
                {Live(sa), Live(rb),
                 Live([ra EXCEPT !.name =
                          GenerateFixedName(s, SourceUID(s), "pingsource-" \o s)])}
         [] prior = "foreignSA" -> {Live([sa EXCEPT !.owner = OtherUID])}
         [] prior = "foreignRB" -> {Live(sa), Live([rb EXCEPT !.owner = OtherUID])}
         [] prior = "foreignRA" ->
                {Live(sa), Live(rb),
                 Live([ra EXCEPT !.owner = OtherUID, !.spec.data = "d9"])}

SharedObjects(prior) ==
    CASE prior = "none" -> {}
      [] prior = "current" ->
             {Live(MakeMTReceiveAdapter(receiveMTAdapterImage, "", "", leConfig))}
      [] prior = "old" ->
             {Live(MakeMTReceiveAdapter("mtadapter:v0", "", "", leConfig))}

NoDest == [ref |-> <<>>, uri |-> ""]

InitLoc ==
    [dest |-> NoDest, sinkURI |-> "", expected |-> <<>>, obj |-> <<>>,
     synced |-> FALSE, undisturbed |-> FALSE]

InitStatus ==
    [sinkCond |-> "Unknown", sinkURI |-> "", schedule |-> FALSE,
     deployed |-> "Unknown", ceAttributes |-> <<>>, annotations |-> <<>>]

\* the status a source starts with: one that an earlier controller reconciled
\* carries what that controller projected, under the event type of its day
PriorStatus(s, prior) ==
    IF prior \in {"own", "deprecated"}
    THEN [InitStatus EXCEPT
             !.sinkCond = "True", !.schedule = TRUE, !.deployed = "True",
             !.annotations = <<{"note"}>>,
             !.ceAttributes =
                 <<[type |-> "dev.knative.cronjob.event",
                    source |-> PingSourceSource(SourceNamespace, s)]>>]
    ELSE InitStatus

NoPrev == [done |-> FALSE, result |-> NilResult, synced |-> FALSE,
           undisturbed |-> FALSE, calls |-> {}, status |-> InitStatus]

Init ==
    /\ \E cfg \in [Sources -> UNION {ConfigsOf(s) : s \in Sources}],
          shared \in SharedPriors :
          /\ \A s \in Sources : cfg[s] \in ConfigsOf(s)
          /\ source = [s \in Sources |->
                          [annotations |-> cfg[s].annotations,
                           sink |-> cfg[s].sink, data |-> cfg[s].data]]
          /\ store = SharedObjects(shared)
                       \cup UNION {PriorObjects(s, cfg[s].prior, cfg[s].sink) :
                                      s \in Sources}
          /\ status = [s \in Sources |-> PriorStatus(s, cfg[s].prior)]
    /\ lister = store
    /\ tracker = {}
    /\ loggingConfig = <<>>
    /\ metricsConfig = <<>>
    /\ pc = [s \in Sources |-> "idle"]
    /\ loc = [s \in Sources |-> InitLoc]
    /\ result = [s \in Sources |-> NilResult]
    /\ calls = [s \in Sources |-> {}]
    /\ events = [s \in Sources |-> {}]
    /\ prev = [s \in Sources |-> NoPrev]
    /\ sinceDone = [s \in Sources |-> FALSE]
    /\ runs = 0
    /\ faults = 0
    /\ panicked = FALSE
    /\ reloads = 0

(***************************************************************************)
(* Bookkeeping shared by the steps.                                        *)
(***************************************************************************)
Call(via, verb, kind, namespace, name, err) ==
    [via |-> via, verb |-> verb, kind |-> kind, namespace |-> namespace,
     name |-> name, err |-> err]

Event(etype, reason) == [etype |-> etype, reason |-> reason]

\* a call may fail with a transient error while the budget of failures lasts
Transient == IF faults < MaxFaults THEN {"ServerError"} ELSE {}

Charge(err) == faults' = IF err = "ServerError" THEN faults + 1 ELSE faults

\* the locals of s after a lister read: synced records that every read of the
\* run so far was answered as the API server would have answered it
Read(s, kind, namespace, name) ==
    [loc[s] EXCEPT !.synced = @ /\ (Find(lister, kind, namespace, name)
                                     = Find(store, kind, namespace, name))]

\* source s moves to newpc with locals newloc; wrote says the store changed
Advance(s, newpc, newloc, wrote) ==
    /\ pc' = [pc EXCEPT ![s] = newpc]
    /\ loc' = [t \in Sources |->
                 IF t = s THEN newloc
                 ELSE IF wrote THEN [loc[t] EXCEPT !.undisturbed = FALSE]
                 ELSE loc[t]]
    /\ sinceDone' = [t \in Sources |->
                       IF t = s THEN (newpc = "done" \/ sinceDone[t])
                       ELSE IF wrote THEN FALSE
                       ELSE sinceDone[t]]

\* PingSourceStatus.PropagateDeploymentAvailability
PropagateDeploymentAvailability(st, d) ==
    [st EXCEPT !.deployed = IF d.available THEN "True" ELSE "False"]

\* PingSourceStatus.MarkNoSink, called at line 133
MarkNoSink(st) == [st EXCEPT !.sinkCond = "False"]

\* a reconciler that marks the schedule before it looks at the resolver's error
ResolveFailed_ScheduleFirst(st) == [MarkNoSink(st) EXCEPT !.schedule = TRUE]

\* lines 131-134: the status a failed resolver call leaves
ResolveFailed(st) == MarkNoSink(st)

\* a reconciler that adds its descriptor to the list it finds
WithCloudEventAttributes_Merged(st, s) ==
    [st EXCEPT !.ceAttributes =
        Append(@, [type |-> PingSourceEventType,
                   source |-> PingSourceSource(SourceNamespace, s)])]

\* ReconcileKind, lines 187-192
WithCloudEventAttributes(st, s) ==
    [st EXCEPT !.ceAttributes =
        <<[type |-> PingSourceEventType,
           source |-> PingSourceSource(SourceNamespace, s)]>>]

\* a reconciler that defaults the namespace in the source's own spec
SinkAfterResolve_NoCopy(sink, namespace) ==
    IF sink.ref # <<>> /\ sink.ref[1].namespace = ""
    THEN [sink EXCEPT !.ref = <<[sink.ref[1] EXCEPT !.namespace = namespace]>>]
    ELSE sink

\* the stored destination after the resolver call: line 119 works on a copy
SinkAfterResolve(sink, namespace) == sink

(***************************************************************************)
(* The informer of one kind catches up with the API server.                *)
(***************************************************************************)
Sync(kind) ==
    /\ ~panicked
    /\ {o \in lister : o.kind = kind} # {o \in store : o.kind = kind}
    /\ lister' = {o \in lister : o.kind # kind} \cup {o \in store : o.kind = kind}
    /\ UNCHANGED <<source, status, store, tracker, process,
                   pc, loc, result, calls, events, prev, sinceDone, runs, faults>>

(***************************************************************************)
(* ReconcileKind, lines 110-146: resolve the sink, mark the status, route. *)
(***************************************************************************)
\* a reconciler that takes the per-source path for the cluster scope
FirstStep_Swapped(scope) == IF scope = "cluster" THEN "sa_get" ELSE "mt_get"

\* lines 146 and 168: the first call of the path of a scope
FirstStep(scope) == IF scope = "cluster" THEN "mt_get" ELSE "sa_get"

ReconcileKind(s) ==
    /\ \E resolved \in BOOLEAN :
         LET dest == DefaultedDest(source[s].sink, SourceNamespace)
             sinkURI == ResolvedAddress(dest)
             newloc == [InitLoc EXCEPT !.dest = dest,
                                       !.sinkURI = IF resolved THEN sinkURI ELSE "",
                                       !.synced = TRUE,
                                       !.undisturbed = sinceDone[s]]
         IN /\ source' = [source EXCEPT
                             ![s].sink = SinkAfterResolve(@, SourceNamespace)]
            /\ prev' = [prev EXCEPT ![s] =
                           [done |-> pc[s] = "done", result |-> result[s],
                            synced |-> loc[s].synced,
                            undisturbed |-> loc[s].undisturbed,
                            calls |-> calls[s], status |-> status[s]]]
            /\ calls' = [calls EXCEPT ![s] = {}]
            /\ events' = [events EXCEPT ![s] = {}]
            /\ IF resolved
               THEN /\ status' = [status EXCEPT ![s].sinkCond = "True",
                                                ![s].sinkURI = sinkURI,
                                                ![s].schedule = TRUE]
                    /\ result' = [result EXCEPT ![s] = NilResult]
                    /\ Advance(s, FirstStep(Route(source[s].annotations)),
                               newloc, FALSE)
               ELSE /\ status' = [status EXCEPT ![s] = ResolveFailed(@)]
                    /\ result' = [result EXCEPT ![s] = WarningEvent("SinkNotFound")]
                    /\ Advance(s, "done", newloc, FALSE)
    /\ UNCHANGED <<store, lister, tracker, process, faults>>

\* the controller hands the key of s to ReconcileKind
Start(s) ==
    /\ pc[s] \in {"idle", "done"}
    /\ ~panicked
    /\ runs < MaxRuns
    /\ runs' = runs + 1
    /\ ReconcileKind(s)

(***************************************************************************)
(* reconcileMTReceiveAdapter, lines 293-337, and the rest of the cluster   *)
(* path of ReconcileKind, lines 146-167 and 187-192.                       *)
(***************************************************************************)
\* a reconciler that names the shared workload anew on every reconcile
MTExpected_Generated ==
    [MakeMTReceiveAdapter(receiveMTAdapterImage, ConfigToJson(loggingConfig),
                          ConfigToJson(metricsConfig), leConfig)
        EXCEPT !.name = mtadapterName \o "-" \o ToString(runs)]

MTExpected ==
    MakeMTReceiveAdapter(receiveMTAdapterImage, ConfigToJson(loggingConfig),
                         ConfigToJson(metricsConfig), leConfig)

\* lines 294-314 and the branch taken on what the lister answers
MTGet(s) ==
    /\ pc[s] = "mt_get"
    /\ ~panicked
    /\ LET found == Find(lister, "deploy", SystemNamespace, mtadapterName)
           seen == Read(s, "deploy", SystemNamespace, mtadapterName)
       IN \E err \in {IF found = {} THEN "NotFound" ELSE ""} \cup Transient :
          /\ Charge(err)
          /\ calls' = [calls EXCEPT ![s] = @ \cup
                {Call("lister", "get", "deploy", SystemNamespace, mtadapterName, err)}]
          /\ IF err = ""
             THEN \E d \in found :
                    IF podSpecChanged(d.spec, MTExpected.spec)
                    THEN \* line 327 assigns through the pointer the lister returned
                         LET nd == [d EXCEPT !.spec = MTExpected.spec]
                         IN /\ lister' = (lister \ {d}) \cup {nd}
                            /\ Advance(s, "mt_update",
                                       [seen EXCEPT !.obj = <<nd>>], FALSE)
                            /\ UNCHANGED result
                    ELSE /\ Advance(s, "track", [seen EXCEPT !.obj = <<d>>], FALSE)
                         /\ UNCHANGED <<lister, result>>
             ELSE IF IsNotFound(err)
             THEN /\ Advance(s, "mt_create",
                             [seen EXCEPT !.expected = <<MTExpected>>], FALSE)
                  /\ UNCHANGED <<lister, result>>
             ELSE /\ result' = [result EXCEPT ![s] = Errorf("get mt adapter", err)]
                  /\ Advance(s, "done", seen, FALSE)
                  /\ UNCHANGED lister
    /\ UNCHANGED <<source, status, store, tracker, process,
                   events, prev, runs>>

\* lines 317-323
MTCreate(s) ==
    /\ pc[s] = "mt_create"
    /\ ~panicked
    /\ LET expected == loc[s].expected[1]
       IN \E err \in {CreateError(store, expected)} \cup Transient :
          /\ Charge(err)
          /\ calls' = [calls EXCEPT ![s] = @ \cup
                {Call("client", "create", "deploy", expected.namespace,
                      expected.name, err)}]
          /\ IF err = ""
             THEN /\ store' = store \cup {Created(expected)}
                  /\ events' = [events EXCEPT ![s] = @ \cup
                        {Event("Normal", "PingSourceDeploymentCreated")}]
                  /\ Advance(s, "track",
                             [loc[s] EXCEPT !.obj = <<Created(expected)>>], TRUE)
                  /\ UNCHANGED result
             ELSE /\ events' = [events EXCEPT ![s] = @ \cup
                        {Event("Warning", "PingSourceDeploymentCreated")}]
                  /\ result' = [result EXCEPT ![s] = RawError("create mt adapter", err)]
                  /\ Advance(s, "done", loc[s], FALSE)
                  /\ UNCHANGED store
    /\ UNCHANGED <<source, status, lister, tracker, process,
                   prev, runs>>

\* lines 328-332
MTUpdate(s) ==
    /\ pc[s] = "mt_update"
    /\ ~panicked
    /\ LET d == loc[s].obj[1]
           held == Find(store, d.kind, d.namespace, d.name)
       IN \E err \in {UpdateError(store, d)} \cup Transient :
          /\ Charge(err)
          /\ calls' = [calls EXCEPT ![s] = @ \cup
                {Call("client", "update", "deploy", d.namespace, d.name, err)}]
          /\ IF err = ""
             THEN /\ store' = (store \ held) \cup {Updated(d)}
                  /\ events' = [events EXCEPT ![s] = @ \cup
                        {Event("Normal", "PingSourceDeploymentUpdated")}]
                  /\ Advance(s, "track", [loc[s] EXCEPT !.obj = <<Updated(d)>>], TRUE)
                  /\ UNCHANGED result
             ELSE /\ result' = [result EXCEPT ![s] = RawError("update mt adapter", err)]
                  /\ Advance(s, "done", loc[s], FALSE)
                  /\ UNCHANGED <<store, events>>
    /\ UNCHANGED <<source, status, lister, tracker, process,
                   prev, runs>>

\* ReconcileKind, lines 153-166 and 187-192
Track(s) ==
    /\ pc[s] = "track"
    /\ ~panicked
    /\ LET d == loc[s].obj[1]
           propagated == PropagateDeploymentAvailability(status[s], d)
       IN \E err \in {""} \cup Transient :
          /\ Charge(err)
          /\ IF err = ""
             THEN /\ tracker' = tracker \cup {<<d.kind, d.namespace, d.name, s>>}
                  /\ status' = [status EXCEPT ![s] =
                                   WithCloudEventAttributes(propagated, s)]
                  /\ result' = [result EXCEPT ![s] = NilResult]
             ELSE /\ status' = [status EXCEPT ![s] = propagated]
                  /\ result' = [result EXCEPT ![s] = RawError("track", err)]
                  /\ UNCHANGED tracker
          /\ Advance(s, "done", loc[s], FALSE)
          /\ calls' = [calls EXCEPT ![s] = @ \cup
                {Call("tracker", "track", d.kind, d.namespace, d.name, err)}]
    /\ UNCHANGED <<source, store, lister, process,
                   events, prev, runs>>

(***************************************************************************)
(* The per-source path: reconcileServiceAccount (195-214),                 *)
(* reconcileRoleBinding (216-235), createReceiveAdapter (237-291) and      *)
(* lines 168-192 of ReconcileKind.                                         *)
(***************************************************************************)
\* lines 196-198 and 208-213; kind is "sa" or "rb"
IdentityGet(s, kind) ==
    /\ pc[s] = kind \o "_get"
    /\ ~panicked
    /\ LET found == Find(lister, kind, SourceNamespace, ExpectedName(s))
           seen == Read(s, kind, SourceNamespace, ExpectedName(s))
           step == IF kind = "sa" THEN "creating receive adapter service account"
                   ELSE "creating receive adapter role binding"
       IN \E err \in {IF found = {} THEN "NotFound" ELSE ""} \cup Transient :
          /\ Charge(err)
          /\ calls' = [calls EXCEPT ![s] = @ \cup
                {Call("lister", "get", kind, SourceNamespace, ExpectedName(s), err)}]
          /\ IF err = ""
             THEN /\ Advance(s, IF kind = "sa" THEN "rb_get" ELSE "ra_get", seen, FALSE)
                  /\ UNCHANGED <<status, result, panicked>>
             ELSE IF IsNotFound(err)
             THEN /\ Advance(s, kind \o "_create", seen, FALSE)
                  /\ UNCHANGED <<status, result, panicked>>
             ELSE IF status[s].annotations = <<>>
             THEN \* lines 210 and 231 assign to an entry of a nil map
                  /\ panicked' = TRUE
                  /\ Advance(s, pc[s], seen, FALSE)
                  /\ UNCHANGED <<status, result>>
             ELSE /\ status' = [status EXCEPT ![s].annotations =
                        <<@[1] \cup {IF kind = "sa" THEN "serviceAccount"
                                     ELSE "roleBinding"}>>]
                  /\ result' = [result EXCEPT ![s] = Errorf(step, err)]
                  /\ Advance(s, "done", seen, FALSE)
                  /\ UNCHANGED panicked
    /\ UNCHANGED <<source, store, lister, tracker, loggingConfig, metricsConfig,
                   reloads, events, prev, runs>>

\* lines 200-206 and 222-228
IdentityCreate(s, kind) ==
    /\ pc[s] = kind \o "_create"
    /\ ~panicked
    /\ LET expected == IF kind = "sa"
                       THEN MakeServiceAccount(s, ExpectedName(s))
                       ELSE MakeRoleBinding(s, ExpectedName(s), stadapterClusterRoleName)
           step == IF kind = "sa" THEN "creating receive adapter service account"
                   ELSE "creating receive adapter role binding"
       IN \E err \in {CreateError(store, expected)} \cup Transient :
          /\ Charge(err)
          /\ calls' = [calls EXCEPT ![s] = @ \cup
                {Call("client", "create", kind, expected.namespace, expected.name, err)}]
          /\ IF err = ""
             THEN /\ store' = store \cup {Created(expected)}
                  /\ events' = [events EXCEPT ![s] = @ \cup
                        {Event("Normal", IF kind = "sa"
                                         THEN "PingSourceServiceAccountCreated"
                                         ELSE "PingSourceRoleBindingCreated")}]
                  /\ Advance(s, IF kind = "sa" THEN "rb_get" ELSE "ra_get", loc[s], TRUE)
                  /\ UNCHANGED result
             ELSE /\ result' = [result EXCEPT ![s] = Errorf(step, err)]
                  /\ Advance(s, "done", loc[s], FALSE)
                  /\ UNCHANGED <<store, events>>
    /\ UNCHANGED <<source, status, lister, tracker, process,
                   prev, runs>>

RAExpected(s) ==
    MakeReceiveAdapter(s, source[s].data, loc[s].sinkURI,
                       ConfigToJson(loggingConfig), ConfigToJson(metricsConfig))

\* lines 184-192 of ReconcileKind
Succeed(s, ra) ==
    /\ status' = [status EXCEPT ![s] =
           WithCloudEventAttributes(PropagateDeploymentAvailability(status[s], ra), s)]
    /\ result' = [result EXCEPT ![s] = NilResult]

\* lines 238-262 and 276-281: the lister's answer and the branch taken
RAGet(s) ==
    /\ pc[s] = "ra_get"
    /\ ~panicked
    /\ LET expected == RAExpected(s)
           found == Find(lister, "deploy", SourceNamespace, expected.name)
           seen == Read(s, "deploy", SourceNamespace, expected.name)
       IN \E err \in {IF found = {} THEN "NotFound" ELSE ""} \cup Transient :
          /\ Charge(err)
          /\ calls' = [calls EXCEPT ![s] = @ \cup
                {Call("lister", "get", "deploy", SourceNamespace, expected.name, err)}]
          /\ IF IsNotFound(err)
             THEN /\ Advance(s, IF DeprecatedName(s) # expected.name
                                THEN "ra_delete" ELSE "ra_create",
                             [seen EXCEPT !.expected = <<expected>>], FALSE)
                  /\ UNCHANGED <<status, lister, result>>
             ELSE IF err # ""
             THEN /\ result' = [result EXCEPT ![s] =
                                   Errorf("creating receive adapter", err)]
                  /\ Advance(s, "done", seen, FALSE)
                  /\ UNCHANGED <<status, lister>>
             ELSE \E ra \in found :
                    IF ~IsControlledBy(ra, s)
                    THEN /\ result' = [result EXCEPT ![s] =
                                          Errorf("creating receive adapter", "NotOwned")]
                         /\ Advance(s, "done", seen, FALSE)
                         /\ UNCHANGED <<status, lister>>
                    ELSE IF podSpecChanged(ra.spec, expected.spec)
                    THEN \* line 281 assigns through the pointer the lister returned
                         LET nra == [ra EXCEPT !.spec = expected.spec]
                         IN /\ lister' = (lister \ {ra}) \cup {nra}
                            /\ Advance(s, "ra_update",
                                       [seen EXCEPT !.obj = <<nra>>], FALSE)
                            /\ UNCHANGED <<status, result>>
                    ELSE /\ Succeed(s, ra)
                         /\ Advance(s, "done", [seen EXCEPT !.obj = <<ra>>], FALSE)
                         /\ UNCHANGED lister
    /\ UNCHANGED <<source, store, tracker, process,
                   events, prev, runs>>

\* lines 262-267
RADelete(s) ==
    /\ pc[s] = "ra_delete"
    /\ ~panicked
    /\ LET name == DeprecatedName(s)
       IN \E err \in {DeleteError(store, "deploy", SourceNamespace, name)}
                        \cup Transient :
          /\ Charge(err)
          /\ calls' = [calls EXCEPT ![s] = @ \cup
                {Call("client", "delete", "deploy", SourceNamespace, name, err)}]
          /\ IF err # "" /\ ~IsNotFound(err)
             THEN /\ result' = [result EXCEPT ![s] =
                                   Errorf("creating receive adapter", err)]
                  /\ Advance(s, "done", loc[s], FALSE)
                  /\ UNCHANGED <<store, events>>
             ELSE /\ store' = store \ Find(store, "deploy", SourceNamespace, name)
                  /\ events' = [events EXCEPT ![s] = @ \cup
                        {Event("Normal", "PingSourceDeploymentDeleted")}]
                  /\ Advance(s, "ra_create", loc[s], err = "")
                  /\ UNCHANGED result
    /\ UNCHANGED <<source, status, lister, tracker, process,
                   prev, runs>>

\* lines 269-275, then 180-192 of ReconcileKind
RACreate(s) ==
    /\ pc[s] = "ra_create"
    /\ ~panicked
    /\ LET expected == loc[s].expected[1]
       IN \E err \in {CreateError(store, expected)} \cup Transient :
          /\ Charge(err)
          /\ calls' = [calls EXCEPT ![s] = @ \cup
                {Call("client", "create", "deploy", expected.namespace,
                      expected.name, err)}]
          /\ events' = [events EXCEPT ![s] = @ \cup
                {Event("Normal", "PingSourceDeploymentCreated")}]
          /\ IF err = ""
             THEN /\ store' = store \cup {Created(expected)}
                  /\ Succeed(s, Created(expected))
                  /\ Advance(s, "done",
                             [loc[s] EXCEPT !.obj = <<Created(expected)>>], TRUE)
             ELSE /\ result' = [result EXCEPT ![s] =
                                   Errorf("creating receive adapter", err)]
                  /\ Advance(s, "done", loc[s], FALSE)
                  /\ UNCHANGED <<store, status>>
    /\ UNCHANGED <<source, lister, tracker, process, prev, runs>>

\* lines 282-286, then 180-192 of ReconcileKind
RAUpdate(s) ==
    /\ pc[s] = "ra_update"
    /\ ~panicked
    /\ LET ra == loc[s].obj[1]
           held == Find(store, ra.kind, ra.namespace, ra.name)
       IN \E err \in {UpdateError(store, ra)} \cup Transient :
          /\ Charge(err)
          /\ calls' = [calls EXCEPT ![s] = @ \cup
                {Call("client", "update", "deploy", ra.namespace, ra.name, err)}]
          /\ IF err = ""
             THEN /\ store' = (store \ held) \cup {Updated(ra)}
                  /\ events' = [events EXCEPT ![s] = @ \cup
                        {Event("Normal", "PingSourceDeploymentUpdated")}]
                  /\ Succeed(s, Updated(ra))
                  /\ Advance(s, "done", [loc[s] EXCEPT !.obj = <<Updated(ra)>>], TRUE)
             ELSE /\ result' = [result EXCEPT ![s] =
                                   Errorf("creating receive adapter", err)]
                  /\ Advance(s, "done", loc[s], FALSE)
                  /\ UNCHANGED <<store, status, events>>
    /\ UNCHANGED <<source, lister, tracker, process, prev, runs>>

(***************************************************************************)
(* The configuration callbacks, lines 345-371.  A snapshot is a pointer to *)
(* a ConfigMap: <<>> is nil.                                               *)
(***************************************************************************)
ExampleKey == "_example"
LoggingKey == "zap-logger-config"
MetricsKey == "metrics.backend-destination"

ConfigMap(name, data) == <<[name |-> name, data |-> data]>>

\* the snapshots a watcher may deliver for the key a callback parses: nil,
\* a well-formed one that still carries the example key, a malformed one
Snapshots(key) ==
    {<<>>,
     ConfigMap("config", [k \in {ExampleKey, key} |->
                             IF k = ExampleKey THEN "sample" ELSE "v1"]),
     ConfigMap("config", [k \in {key} |-> "{"])}

WellFormed(value) == value # "{"

\* lines 346-348 and 361-363: delete(cfg.Data, "_example")
WithoutExample(data) == [k \in DOMAIN data \ {ExampleKey} |-> data[k]]

\* pkgLogging.NewConfigFromConfigMap at line 350, on a non-nil ConfigMap
NewConfigFromConfigMap(data) ==
    IF LoggingKey \in DOMAIN data /\ ~WellFormed(data[LoggingKey])
    THEN [err |-> TRUE, config |-> <<>>]
    ELSE [err |-> FALSE,
          config |-> <<IF LoggingKey \in DOMAIN data THEN data[LoggingKey]
                       ELSE "">>]

\* lines 365-369: the options keep the data of the ConfigMap as they are
ExporterOptions(data) ==
    <<(IF ExampleKey \in DOMAIN data THEN ExampleKey \o "=" \o data[ExampleKey] \o ","
       ELSE "")
      \o (IF MetricsKey \in DOMAIN data THEN MetricsKey \o "=" \o data[MetricsKey]
          ELSE "")>>

\* a changed configuration changes what every later reconcile desires
Reconfigured(changed) ==
    /\ loc' = [t \in Sources |->
                 IF changed THEN [loc[t] EXCEPT !.undisturbed = FALSE] ELSE loc[t]]
    /\ sinceDone' = [t \in Sources |-> IF changed THEN FALSE ELSE sinceDone[t]]

\* lines 345-357
UpdateFromLoggingConfigMap(cfg) ==
    /\ ~panicked
    /\ reloads < MaxReloads
    /\ reloads' = reloads + 1
    /\ IF cfg = <<>>
       THEN \* NewConfigFromConfigMap reads cfg.Data, line 352 reads cfg.Name
            /\ panicked' = TRUE
            /\ UNCHANGED <<loggingConfig, loc, sinceDone>>
       ELSE LET parsed == NewConfigFromConfigMap(WithoutExample(cfg[1].data))
            IN /\ loggingConfig' = IF parsed.err THEN loggingConfig
                                   ELSE parsed.config
               /\ Reconfigured(loggingConfig' # loggingConfig)
               /\ UNCHANGED panicked
    /\ UNCHANGED <<source, status, store, lister, tracker, metricsConfig, pc,
                   result, calls, events, prev, runs, faults>>

\* lines 360-371
UpdateFromMetricsConfigMap(cfg) ==
    /\ ~panicked
    /\ reloads < MaxReloads
    /\ reloads' = reloads + 1
    /\ IF cfg = <<>>
       THEN \* line 368 reads cfg.Data
            /\ panicked' = TRUE
            /\ UNCHANGED <<metricsConfig, loc, sinceDone>>
       ELSE /\ metricsConfig' = ExporterOptions(WithoutExample(cfg[1].data))
            /\ Reconfigured(metricsConfig' # metricsConfig)
            /\ UNCHANGED panicked
    /\ UNCHANGED <<source, status, store, lister, tracker, loggingConfig, pc,
                   result, calls, events, prev, runs, faults>>

(***************************************************************************)
(* The specification.                                                      *)
(***************************************************************************)
Next ==
    \/ \E s \in Sources : Start(s)
    \/ \E s \in Sources : MTGet(s)
    \/ \E s \in Sources : MTCreate(s)
    \/ \E s \in Sources : MTUpdate(s)
    \/ \E s \in Sources : Track(s)
    \/ \E s \in Sources : \E kind \in {"sa", "rb"} : IdentityGet(s, kind)
    \/ \E s \in Sources : \E kind \in {"sa", "rb"} : IdentityCreate(s, kind)
    \/ \E s \in Sources : RAGet(s)
    \/ \E s \in Sources : RADelete(s)
    \/ \E s \in Sources : RACreate(s)
    \/ \E s \in Sources : RAUpdate(s)
    \/ \E kind \in {"sa", "rb", "deploy"} : Sync(kind)

\* the reconciler under the configuration it was started with
Spec == Init /\ [][Next]_vars

\* the reconciler while the watcher of the configuration delivers snapshots
ReloadNext ==
    \/ Next
    \/ \E cfg \in Snapshots(LoggingKey) : UpdateFromLoggingConfigMap(cfg)
    \/ \E cfg \in Snapshots(MetricsKey) : UpdateFromMetricsConfigMap(cfg)

ReloadSpec == Init /\ [][ReloadNext]_vars

(***************************************************************************)
(* The reconciler under a controller that keeps handing it the key of a   *)
(* source of the resource scope: the work queue puts back the key of a     *)
(* reconcile that returned an error, the periodic resync that of the       *)
(* others.  A reconcile that was started runs on, the informers deliver    *)
(* what the store holds, and a key that stays queued is in the end         *)
(* reconciled with the sink resolvable.                                    *)
(***************************************************************************)
Requeue(s) ==
    /\ pc[s] = "done"
    /\ Route(source[s].annotations) = "resource"
    /\ ~panicked
    /\ UNCHANGED runs
    /\ ReconcileKind(s)

Step(s) ==
    \/ MTGet(s) \/ MTCreate(s) \/ MTUpdate(s) \/ Track(s)
    \/ \E kind \in {"sa", "rb"} : IdentityGet(s, kind) \/ IdentityCreate(s, kind)
    \/ RAGet(s) \/ RADelete(s) \/ RACreate(s) \/ RAUpdate(s)

FairNext ==
    \/ Next
    \/ \E s \in Sources : Requeue(s)

\* p1 is a source of the resource scope, p2 one of the cluster scope
FairInit ==
    /\ Init
    /\ Route(source["p1"].annotations) = "resource"
    /\ source["p1"].sink = SinkLocalRef
    /\ source["p1"].data # ""

FairSpec ==
    /\ FairInit
    /\ [][FairNext]_vars
    /\ \A s \in Sources : WF_vars(Step(s))
    /\ \A s \in Sources : WF_vars(Requeue(s) /\ pc'[s] # "done")
    /\ \A kind \in {"sa", "rb", "deploy"} : WF_vars(Sync(kind))

(***************************************************************************)
(* What the claims speak of.                                               *)
(***************************************************************************)
PerSourceKinds == {"sa", "rb", "deploy"}

\* the objects at the name source s expects that another owner holds
ForeignAt(s) ==
    {o \in store : /\ o.kind \in PerSourceKinds
                   /\ o.namespace = SourceNamespace
                   /\ o.name = ExpectedName(s)
                   /\ o.owner # SourceUID(s)}

\* the current run of s found o in the lister
FoundByLister(s, o) ==
    Call("lister", "get", o.kind, o.namespace, o.name, "") \in calls[s]

\* the client calls of a run that change the store: create, update, delete
ClientCalls(cs) == {c \in cs : c.via = "client"}

(***************************************************************************)
(* C1.  Ownership safety: an object at the name a source expects, of a     *)
(* per-source kind and owned by somebody else, stays in the store exactly  *)
(* as it is through every step, and the source's reconcile issues no       *)
(* create, update or delete against its key.                               *)
(***************************************************************************)
C1_OwnershipNoWrite ==
    [][\A s \in Sources : \A o \in ForeignAt(s) :
          /\ o \in store'
          /\ {c \in calls'[s] : /\ c.via = "client"
                                /\ c.kind = o.kind
                                /\ c.namespace = o.namespace
                                /\ c.name = o.name} = {}]_vars

\* a reconcile found a foreign identity object, went on, wrote other objects
\* and finished
C1_Witness ==
    \E s \in Sources : \E o \in ForeignAt(s) :
        /\ o.kind = "sa"
        /\ pc[s] = "done"
        /\ FoundByLister(s, o)
        /\ \E c \in ClientCalls(calls[s]) : c.err = ""

(***************************************************************************)
(* C2.  Ownership conflict is detected for every per-source kind: a        *)
(* reconcile that found, at the expected name, an identity object, a       *)
(* permission binding or a workload owned by somebody else ends with the   *)
(* ownership-conflict failure.                                             *)
(***************************************************************************)
C2_ConflictDetected ==
    \A s \in Sources : \A o \in ForeignAt(s) :
        (pc[s] = "done" /\ FoundByLister(s, o))
            => (result[s].type # "nil" /\ result[s].cause = "NotOwned")

(***************************************************************************)
(* C3.  The outcome of an ownership conflict on the per-source workload is *)
(* a terminal failure, a kind other than that of a transient store error.  *)
(***************************************************************************)
C3_ConflictIsTerminal ==
    \A s \in Sources :
        (pc[s] = "done" /\ result[s].cause = "NotOwned")
            => OutcomeKind(result[s]) = "TerminalFailure"

(***************************************************************************)
(* C4.  Idempotence: when a reconcile of a source returned success and the *)
(* source is reconciled again, nobody else having written to the store     *)
(* since, and the lister answered every read of both reconciles as the     *)
(* store would have, the second reconcile issues no client create, update  *)
(* or delete.                                                              *)
(***************************************************************************)
SecondRunUnchanged(s) ==
    /\ pc[s] # "idle"
    /\ prev[s].done
    /\ prev[s].result.type = "nil"
    /\ prev[s].synced
    /\ loc[s].undisturbed
    /\ loc[s].synced

C4_Idempotent ==
    \A s \in Sources : SecondRunUnchanged(s) => ClientCalls(calls[s]) = {}

\* the first reconcile created something, the second ran to its end, read the
\* lister and succeeded
C4_Witness ==
    \E s \in Sources :
        /\ SecondRunUnchanged(s)
        /\ pc[s] = "done"
        /\ result[s].type = "nil"
        /\ \E c \in ClientCalls(prev[s].calls) : c.verb = "create" /\ c.err = ""
        /\ \E c \in calls[s] : c.via = "lister" /\ c.err = ""

(***************************************************************************)
(* C5.  Convergence in one reconcile.                                      *)
(***************************************************************************)
\* the fields of the pod template the reconciler sets
OwnedFields == PodFields \ {"dnsPolicy"}

\* the live workload of s and the specification s wants for it
WorkloadOf(s) ==
    IF Route(source[s].annotations) = "cluster"
    THEN Find(store, "deploy", SystemNamespace, mtadapterName)
    ELSE Find(store, "deploy", SourceNamespace, ExpectedName(s))

DesiredOf(s) ==
    IF Route(source[s].annotations) = "cluster" THEN MTExpected ELSE RAExpected(s)

\* the last reconcile of s met no failure and read an up-to-date lister
FaultFreeSuccess(s) ==
    /\ pc[s] = "done"
    /\ result[s].type = "nil"
    /\ loc[s].synced

\* the last reconcile of s created or updated its workload
WroteWorkload(s) ==
    \E c \in ClientCalls(calls[s]) :
        c.kind = "deploy" /\ c.verb \in {"create", "update"} /\ c.err = ""

\* C5 as stated: after one fault-free reconcile against an up-to-date lister
\* every owned field of the live workload equals the desired specification,
\* also a field the desired specification has emptied.
C5_ConvergesExactly ==
    \A s \in Sources :
        FaultFreeSuccess(s) =>
            /\ WorkloadOf(s) # {}
            /\ \A o \in WorkloadOf(s) : \A f \in OwnedFields :
                   o.spec[f] = DesiredOf(s).spec[f]

\* C5 as amended: after one fault-free reconcile against an up-to-date lister
\* the live workload agrees with the desired specification in every field the
\* desired specification sets, and in every owned field when the reconcile
\* created or updated the workload; a field the desired specification leaves
\* empty keeps its live value.
C5_Converges ==
    \A s \in Sources :
        FaultFreeSuccess(s) =>
            /\ WorkloadOf(s) # {}
            /\ \A o \in WorkloadOf(s) :
                  /\ \A f \in OwnedFields :
                        DesiredOf(s).spec[f] # "" => o.spec[f] = DesiredOf(s).spec[f]
                  /\ WroteWorkload(s) =>
                        \A f \in OwnedFields : o.spec[f] = DesiredOf(s).spec[f]

\* a reconcile found drift on its workload, updated it and succeeded
C5_Witness ==
    \E s \in Sources :
        /\ FaultFreeSuccess(s)
        /\ \E c \in ClientCalls(calls[s]) :
              c.kind = "deploy" /\ c.verb = "update" /\ c.err = ""

(***************************************************************************)
(* C6.  Singleton shared workload: whatever the interleaving of the        *)
(* lister reads and client writes of the cluster-scoped sources, the store *)
(* holds at most one workload in the system namespace, and exactly one     *)
(* once a create of it has succeeded.                                      *)
(***************************************************************************)
SharedWorkloads == {o \in store : o.kind = "deploy" /\ o.namespace = SystemNamespace}

SharedCall(c, verb, err) ==
    /\ c.kind = "deploy"
    /\ c.namespace = SystemNamespace
    /\ c.verb = verb
    /\ c.err = err

C6_SingletonShared ==
    /\ Cardinality(SharedWorkloads) <= 1
    /\ (\E s \in Sources : \E c \in calls[s] \cup prev[s].calls :
            SharedCall(c, "create", ""))
         => Cardinality(SharedWorkloads) = 1

\* two sources both read 'not found', then one created the shared workload and
\* the API server rejected the create of the other
C6_Witness ==
    \E s, u \in Sources :
        /\ s # u
        /\ \E c \in calls[s] : SharedCall(c, "get", "NotFound")
        /\ \E c \in calls[u] : SharedCall(c, "get", "NotFound")
        /\ \E c \in calls[s] : SharedCall(c, "create", "")
        /\ \E c \in calls[u] : SharedCall(c, "create", "AlreadyExists")
        /\ Cardinality(SharedWorkloads) = 1

(***************************************************************************)
(* C7.  'Already exists' on create is tolerated: a reconcile whose create  *)
(* the API server rejected with 'already exists' goes on and returns       *)
(* success.                                                                *)
(***************************************************************************)
C7_AlreadyExistsTolerated ==
    \A s \in Sources :
        (pc[s] = "done"
            /\ \E c \in ClientCalls(calls[s]) :
                  c.verb = "create" /\ c.err = "AlreadyExists")
            => result[s].type = "nil"

(***************************************************************************)
(* C8.  Scope routing default: only the annotation value 'resource'        *)
(* selects the per-source path; a source without the annotation, or with   *)
(* any other value, takes the cluster path.                                *)
(***************************************************************************)
ClusterSteps == {"mt_get", "mt_create", "mt_update", "track"}

ResourceSteps ==
    {"sa_get", "sa_create", "rb_get", "rb_create",
     "ra_get", "ra_delete", "ra_create", "ra_update"}

AnnotatedResource(s) ==
    /\ ScopeAnnotationKey \in DOMAIN source[s].annotations
    /\ source[s].annotations[ScopeAnnotationKey] = ScopeResource

C8_DefaultsToCluster ==
    \A s \in Sources :
        /\ pc[s] \in ResourceSteps => AnnotatedResource(s)
        /\ pc[s] \in ClusterSteps => ~AnnotatedResource(s)

(***************************************************************************)
(* C9.  Namespace defaulting: the destination handed to the resolver has   *)
(* the source's namespace where the source's reference has none and the    *)
(* reference's own namespace otherwise, a literal URI is handed over as it *)
(* is, and no step changes the destination stored in the source.           *)
(***************************************************************************)
DestPassedOK(s) ==
    LET sink == source[s].sink
        dest == loc[s].dest
    IN IF sink.ref = <<>>
       THEN dest = sink
       ELSE /\ dest.uri = sink.uri
            /\ dest.ref # <<>>
            /\ dest.ref[1].name = sink.ref[1].name
            /\ dest.ref[1].namespace = IF sink.ref[1].namespace = ""
                                       THEN SourceNamespace
                                       ELSE sink.ref[1].namespace

C9_NamespaceDefaulting ==
    [][\A s \in Sources :
          /\ pc'[s] # "idle" => DestPassedOK(s)'
          /\ source'[s] = source[s]]_vars

\* a reference without a namespace was handed over with the source's namespace
C9_Witness ==
    \E s \in Sources :
        /\ pc[s] # "idle"
        /\ source[s].sink.ref # <<>>
        /\ source[s].sink.ref[1].namespace = ""
        /\ loc[s].dest.ref[1].namespace = SourceNamespace

(***************************************************************************)
(* C10.  The migration shim.                                               *)
(***************************************************************************)
\* workloads of s that the store holds under another name than the current one
StaleWorkloads(s) ==
    {o \in store : /\ o.kind = "deploy"
                   /\ o.namespace = SourceNamespace
                   /\ o.owner = SourceUID(s)
                   /\ o.name # ExpectedName(s)}

WorkloadCall(c, verb) ==
    c.kind = "deploy" /\ c.namespace = SourceNamespace /\ c.verb = verb

\* the previous reconcile of s deleted the deprecated workload, created the
\* current one and returned success
MigratedBefore(s) ==
    /\ prev[s].done
    /\ prev[s].result.type = "nil"
    /\ \E c \in prev[s].calls : WorkloadCall(c, "delete") /\ c.err = ""
    /\ \E c \in prev[s].calls : WorkloadCall(c, "create") /\ c.err = ""

\* C10 as stated: once a reconcile has migrated the workload, no later
\* reconcile of the source issues a delete call.
C10_NoLaterDelete ==
    \A s \in Sources :
        MigratedBefore(s) => ~\E c \in calls[s] : c.verb = "delete"

\* C10 as amended: a reconcile that finds no workload under the current name
\* and succeeds leaves the current workload in the store and none under the
\* deprecated name; a reconcile after the migration issues a delete call only
\* when the lister has not yet observed the new workload, and that call
\* removes nothing.
C10_MigratesOnce ==
    \A s \in Sources :
        /\ (pc[s] = "done" /\ result[s].type = "nil"
               /\ \E c \in calls[s] : WorkloadCall(c, "get") /\ c.err = "NotFound")
              => /\ StaleWorkloads(s) = {}
                 /\ \E o \in Find(store, "deploy", SourceNamespace, ExpectedName(s)) :
                       o.owner = SourceUID(s)
        /\ MigratedBefore(s) =>
              \A c \in calls[s] :
                  c.verb = "delete" =>
                      /\ c.err # ""
                      /\ \E g \in calls[s] : WorkloadCall(g, "get") /\ g.err = "NotFound"
                      /\ StaleWorkloads(s) = {}

\* after the migration the source was reconciled again before the lister had
\* observed the new workload: the delete was issued again and found nothing
C10_Witness ==
    \E s \in Sources :
        /\ MigratedBefore(s)
        /\ pc[s] = "done"
        /\ \E c \in calls[s] : WorkloadCall(c, "delete") /\ c.err = "NotFound"

(***************************************************************************)
(* C11.  Resolution failure: a reconcile whose resolver call failed has    *)
(* set the sink condition to false and returned a failure, has made no     *)
(* lister read, no client call and no tracker registration, and has left   *)
(* the schedule flag, the availability condition and the event-type list   *)
(* of the status as they were before it.                                   *)
(***************************************************************************)
SinkNotResolved(s) ==
    pc[s] = "done" /\ result[s] = WarningEvent("SinkNotFound")

C11_ResolutionFailure ==
    \A s \in Sources :
        SinkNotResolved(s) =>
            /\ status[s].sinkCond = "False"
            /\ OutcomeKind(result[s]) # "Success"
            /\ calls[s] = {}
            /\ events[s] = {}
            /\ status[s].schedule = prev[s].status.schedule
            /\ status[s].deployed = prev[s].status.deployed
            /\ status[s].ceAttributes = prev[s].status.ceAttributes

\* the resolver failed for a source that an earlier reconcile had brought to
\* success: there is a schedule flag, an availability and a list to keep
C11_Witness ==
    \E s \in Sources :
        /\ SinkNotResolved(s)
        /\ prev[s].done /\ prev[s].result.type = "nil"
        /\ prev[s].status.schedule
        /\ prev[s].status.deployed = "True"
        /\ prev[s].status.ceAttributes # <<>>
        /\ \E t \in tracker : t[4] = s

(***************************************************************************)
(* C12.  No status mutation on a transient store failure: once a lister    *)
(* get or a client create, update or delete of a run has failed with a     *)
(* server error, the reconcile has returned a retryable failure and the    *)
(* status is the one the run found with the sink address and the schedule  *)
(* flag set, nothing else written.                                         *)
(***************************************************************************)
StoreFailures(s) ==
    {c \in calls[s] : c.via \in {"lister", "client"} /\ c.err = "ServerError"}

\* the status of s as the steps before the managed objects leave it
AsResolved(s) ==
    [prev[s].status EXCEPT !.sinkCond = "True", !.sinkURI = loc[s].sinkURI,
                           !.schedule = TRUE]

C12_NoStatusWriteOnFailure ==
    \A s \in Sources :
        StoreFailures(s) # {} =>
            /\ pc[s] = "done"
            /\ OutcomeKind(result[s]) = "RetryableFailure"
            /\ status[s] = AsResolved(s)

(***************************************************************************)
(* C13.  No notification on a client error: a normal event of a run that   *)
(* tells of the creation or the update of an object is matched by a client *)
(* create or update of that kind that succeeded in the same run.           *)
(***************************************************************************)
\* the verb and the kind of object an event reason tells of
Notifies(reason) ==
    CASE reason = "PingSourceServiceAccountCreated" -> <<"create", "sa">>
      [] reason = "PingSourceRoleBindingCreated" -> <<"create", "rb">>
      [] reason = "PingSourceDeploymentCreated" -> <<"create", "deploy">>
      [] reason = "PingSourceDeploymentUpdated" -> <<"update", "deploy">>
      [] OTHER -> <<"", "">>

C13_NoEventOnClientError ==
    \A s \in Sources : \A e \in events[s] :
        (e.etype = "Normal" /\ Notifies(e.reason)[1] # "") =>
            \E c \in ClientCalls(calls[s]) :
                /\ c.verb = Notifies(e.reason)[1]
                /\ c.kind = Notifies(e.reason)[2]
                /\ c.err = ""

(***************************************************************************)
(* C14.  Cluster-scope step order: the availability of the shared workload *)
(* is propagated into the status only after the tracked dependency was     *)
(* registered, so a reconcile whose tracker registration failed has left   *)
(* the availability condition of the status as it found it.                *)
(***************************************************************************)
TrackFailed(s) ==
    /\ pc[s] = "done"
    /\ \E c \in calls[s] : c.via = "tracker" /\ c.err # ""

C14_TrackBeforePropagate ==
    \A s \in Sources :
        TrackFailed(s) => status[s].deployed = prev[s].status.deployed

(***************************************************************************)
(* C15.  Per-source path order and short-circuit: a run calls for the      *)
(* permission binding only after the identity step passed and for the      *)
(* workload only after the permission-binding step passed; once a step has *)
(* failed the run has returned a failure without any call of a later step, *)
(* and what the run created is still in the store.                         *)
(***************************************************************************)
\* the calls of the current run of s for objects of kind k of its own
OwnCalls(s, k) ==
    {c \in calls[s] : /\ c.via \in {"lister", "client"}
                       /\ c.namespace = SourceNamespace
                       /\ c.kind = k}

\* an answer that ends the step: any error but the not-found of a lister
\* get or of a delete
Fails(c) == c.err # "" /\ ~(c.verb \in {"get", "delete"} /\ IsNotFound(c.err))

StepFailed(s, k) == \E c \in OwnCalls(s, k) : Fails(c)

StepPassed(s, k) ==
    /\ ~StepFailed(s, k)
    /\ \E c \in OwnCalls(s, k) : c.err = "" /\ c.verb \in {"get", "create"}

C15_OrderAndShortCircuit ==
    \A s \in Sources :
        /\ OwnCalls(s, "rb") # {} => StepPassed(s, "sa")
        /\ OwnCalls(s, "deploy") # {} => StepPassed(s, "rb")
        /\ (\E k \in PerSourceKinds : StepFailed(s, k)) =>
               (pc[s] = "done" /\ OutcomeKind(result[s]) # "Success")
        /\ \A c \in calls[s] :
               (c.verb = "create" /\ c.err = "") =>
                   Find(store, c.kind, c.namespace, c.name) # {}

(***************************************************************************)
(* C16.  The lister cache is never written by a reconcile: a step that     *)
(* moves a ReconcileKind forward leaves every object of the lister as it   *)
(* was, the step that found drift included.                                *)
(***************************************************************************)
C16_ListerNotWritten ==
    [][(\E s \in Sources : pc'[s] # pc[s]) => lister' = lister]_vars

(***************************************************************************)
(* C17.  Event-type projection: when a reconcile of either scope has       *)
(* returned success, the event-type list of the status is the one          *)
(* descriptor made of the static event type and the source identifier      *)
(* built from the namespace and the name, whatever the list held before.   *)
(***************************************************************************)
Succeeded(s) == pc[s] = "done" /\ result[s].type = "nil"

C17_EventTypeProjection ==
    \A s \in Sources :
        Succeeded(s) =>
            status[s].ceAttributes =
                <<[type |-> PingSourceEventType,
                   source |-> PingSourceSource(SourceNamespace, s)]>>

\* a success that replaced a list of another content, next to the success of
\* a source of the cluster scope
C17_Witness ==
    \E s, t \in Sources :
        /\ Succeeded(s)
        /\ prev[s].status.ceAttributes # <<>>
        /\ prev[s].status.ceAttributes # status[s].ceAttributes
        /\ Succeeded(t)
        /\ Route(source[t].annotations) = "cluster"

(***************************************************************************)
(* C18.  The configuration callbacks never fail hard: a call of either     *)
(* entry point leaves the process alive and the other configuration as it  *)
(* was; with a nil or malformed snapshot it leaves its own configuration   *)
(* as it was too, with a well-formed one it stores the value delivered.    *)
(***************************************************************************)
Unusable(cfg, key) ==
    \/ cfg = <<>>
    \/ key \in DOMAIN cfg[1].data /\ ~WellFormed(cfg[1].data[key])

C18_CallbacksNeverFailHard ==
    [][/\ \A cfg \in Snapshots(LoggingKey) :
             UpdateFromLoggingConfigMap(cfg) =>
                 /\ ~panicked'
                 /\ metricsConfig' = metricsConfig
                 /\ Unusable(cfg, LoggingKey) => loggingConfig' = loggingConfig
                 /\ ~Unusable(cfg, LoggingKey) => loggingConfig' # <<>>
       /\ \A cfg \in Snapshots(MetricsKey) :
             UpdateFromMetricsConfigMap(cfg) =>
                 /\ ~panicked'
                 /\ loggingConfig' = loggingConfig
                 /\ Unusable(cfg, MetricsKey) => metricsConfig' = metricsConfig
                 /\ ~Unusable(cfg, MetricsKey) => metricsConfig' # <<>>]_vars

(***************************************************************************)
(* C19.  Resumability and eventual convergence: for a source of the        *)
(* resource scope whose workload name nobody else holds, once a reconcile  *)
(* has failed, and with reconciles re-invoked, failures ceasing and the    *)
(* lister catching up, a reconcile eventually returns success with the     *)
(* identity, the permission binding and the workload in the store and the  *)
(* workload showing no drift from the desired specification.               *)
(***************************************************************************)
Resumable(s) ==
    /\ Route(source[s].annotations) = "resource"
    /\ \A o \in ForeignAt(s) : o.kind # "deploy"

FailedOnce(s) == pc[s] = "done" /\ result[s].type # "nil"

Converged(s) ==
    /\ Succeeded(s)
    /\ \A k \in PerSourceKinds :
          Find(store, k, SourceNamespace, ExpectedName(s)) # {}
    /\ \A ra \in Find(store, "deploy", SourceNamespace, ExpectedName(s)) :
          ~podSpecChanged(ra.spec, RAExpected(s).spec)

C19_EventuallyConverges ==
    \A s \in Sources : (Resumable(s) /\ FailedOnce(s)) ~> Converged(s)

(***************************************************************************)
(* C20.  Scope isolation: a reconcile on the cluster path calls for the    *)
(* shared workload and the tracker only, and no object owned by its source *)
(* is in the store; a reconcile on the per-source path makes no call for   *)
(* an object of the system namespace and none to the tracker, and no       *)
(* tracked dependency of its source is registered.                         *)
(***************************************************************************)
OnShared(c) ==
    c.kind = "deploy" /\ c.namespace = SystemNamespace /\ c.name = mtadapterName

C20_ScopeIsolation ==
    \A s \in Sources :
        IF Route(source[s].annotations) = "cluster"
        THEN /\ \A c \in calls[s] : c.via = "tracker" \/ OnShared(c)
             /\ \A o \in store : o.owner # SourceUID(s)
        ELSE /\ \A c \in calls[s] : c.via # "tracker" /\ ~OnShared(c)
                                      /\ c.namespace = SourceNamespace
             /\ \A d \in tracker : d[4] # s

\* a reconcile on each path has finished after writing to the store, the one
\* on the cluster path after registering its dependency as well
C20_Witness ==
    \E s, t \in Sources :
        /\ Route(source[s].annotations) = "cluster"
        /\ Succeeded(s)
        /\ \E c \in ClientCalls(calls[s]) : c.err = ""
        /\ \E d \in tracker : d[4] = s
        /\ Route(source[t].annotations) = "resource"
        /\ Succeeded(t)
        /\ \E c \in ClientCalls(calls[t]) : c.err = "" /\ c.kind = "sa"
        /\ \E c \in ClientCalls(calls[t]) : c.err = "" /\ c.kind = "deploy"

====
